---- MODULE Spec2Model ----
(***************************************************************************)
(* supabase-ssr-user-impersonate-tool: the `run` handler of the command    *)
(* (main.mjs, and the earlier variant of the same file that has no         *)
(* --skip-check / --dry-run), the cookie callbacks handed to               *)
(* createServerClient, and the JS snippet the command prints, executed in  *)
(* the browser.                                                            *)
(*                                                                         *)
(* JS strings are sequences of one-character strings, so that              *)
(* encodeURIComponent, number formatting and property-key classification   *)
(* are computed and not assumed.  A JS value is a record                   *)
(* [k, n, s]: k is the typeof tag, n the number (or 0/1 of a boolean), s   *)
(* the characters of a string.                                             *)
(***************************************************************************)
EXTENDS Integers, Sequences, FiniteSets

\* ------------------------------------------------------------- bounds ---
\* Most cookie callbacks (get/set/remove) the provider makes in one verifyOtp.
MaxCallbacks == 2

\* ---------------------------------------------------------- JS values ---
Undefined == [k |-> "undefined", n |-> 0, s |-> <<>>]
Num(i) == [k |-> "number", n |-> i, s |-> <<>>]
Str(cs) == [k |-> "string", n |-> 0, s |-> cs]
Bool(b) == [k |-> "boolean", n |-> IF b THEN 1 ELSE 0, s |-> <<>>]

\* ToBoolean: what `if (v)`, `!v` and `a || b` test.
Truthy(v) ==
  CASE v.k = "undefined" -> FALSE
    [] v.k = "number" -> v.n # 0
    [] v.k = "string" -> Len(v.s) > 0
    [] v.k = "boolean" -> v.n = 1

\* a || b
Or(a, b) == IF Truthy(a) THEN a ELSE b

Digits == <<"0", "1", "2", "3", "4", "5", "6", "7", "8", "9">>
DigitChars == {Digits[i] : i \in 1..10}
DigitValue(c) == (CHOOSE i \in 1..10 : Digits[i] = c) - 1

RECURSIVE NatToString(_)
NatToString(i) ==
  IF i < 10 THEN <<Digits[i + 1]>>
  ELSE NatToString(i \div 10) \o <<Digits[(i % 10) + 1]>>

\* ToString, as applied by `"..." + v`.
JSToString(v) ==
  CASE v.k = "undefined" -> <<"u", "n", "d", "e", "f", "i", "n", "e", "d">>
    [] v.k = "number" -> IF v.n < 0 THEN <<"-">> \o NatToString(-v.n) ELSE NatToString(v.n)
    [] v.k = "string" -> v.s
    [] v.k = "boolean" -> IF v.n = 1 THEN <<"t", "r", "u", "e">> ELSE <<"f", "a", "l", "s", "e">>

\* ------------------------------------------------- encodeURIComponent ---
Letters ==
  {"a", "b", "c", "d", "e", "f", "g", "h", "i", "j", "k", "l", "m", "n", "o", "p", "q",
   "r", "s", "t", "u", "v", "w", "x", "y", "z",
   "A", "B", "C", "D", "E", "F", "G", "H", "I", "J", "K", "L", "M", "N", "O", "P", "Q",
   "R", "S", "T", "U", "V", "W", "X", "Y", "Z"}
\* The characters encodeURIComponent leaves alone.
UriUnreserved == Letters \cup DigitChars \cup {"-", "_", ".", "!", "~", "*", "'", "(", ")"}

\* Code unit of the other ASCII characters that occur in the inputs below.
CharCode(c) ==
  CASE c = " " -> 32
    [] c = "/" -> 47
    [] c = ":" -> 58
    [] c = ";" -> 59
    [] c = "=" -> 61
    [] c = "@" -> 64

HexDigits == <<"0", "1", "2", "3", "4", "5", "6", "7", "8", "9", "A", "B", "C", "D", "E", "F">>
PercentOctet(b) == <<"%", HexDigits[(b \div 16) + 1], HexDigits[(b % 16) + 1]>>

RECURSIVE encodeURIComponent(_)
encodeURIComponent(cs) ==
  IF cs = <<>> THEN <<>>
  ELSE (IF Head(cs) \in UriUnreserved THEN <<Head(cs)>> ELSE PercentOctet(CharCode(Head(cs))))
       \o encodeURIComponent(Tail(cs))

\* --------------------------------------------------- ordinary objects ---
\* A plain JS object: its own properties, their [[OwnPropertyKeys]] order,
\* and its prototype (<<>> is Object.prototype, <<v>> an object v).
EmptyObject == [keys |-> <<>>, props |-> <<>>, proto |-> <<>>]

ProtoKey == <<"_", "_", "p", "r", "o", "t", "o", "_", "_">>
HasOwnPropertyKey == <<"h", "a", "s", "O", "w", "n", "P", "r", "o", "p", "e", "r", "t", "y">>

\* a < b for canonical decimal strings (no leading zero): the shorter is the
\* smaller, and strings of one length compare digit by digit.
DecimalLess(a, b) ==
  \/ Len(a) < Len(b)
  \/ /\ Len(a) = Len(b)
     /\ \E i \in 1..Len(a) :
          /\ \A j \in 1..(i - 1) : a[j] = b[j]
          /\ DigitValue(a[i]) < DigitValue(b[i])

\* 2^32 - 1
ArrayIndexLimit == <<"4", "2", "9", "4", "9", "6", "7", "2", "9", "5">>

\* A property key that is an array index: the canonical decimal string of an
\* integer in 0 .. 2^32 - 2.
IsArrayIndex(key) ==
  /\ Len(key) >= 1
  /\ \A i \in 1..Len(key) : key[i] \in DigitChars
  /\ Len(key) = 1 \/ key[1] # "0"
  /\ DecimalLess(key, ArrayIndexLimit)

HasOwn(o, key) == \E i \in 1..Len(o.keys) : o.keys[i] = key

GetOwn(o, key) == o.props[CHOOSE i \in 1..Len(o.keys) : o.keys[i] = key]

\* Position a newly created key takes in [[OwnPropertyKeys]]: array indices
\* first, in ascending numeric order, then the other strings in creation order.
NewKeyPosition(keys, key) ==
  IF IsArrayIndex(key)
  THEN 1 + Cardinality({i \in 1..Len(keys) :
                          IsArrayIndex(keys[i]) /\ DecimalLess(keys[i], key)})
  ELSE Len(keys) + 1

InsertAt(seq, pos, e) == SubSeq(seq, 1, pos - 1) \o <<e>> \o SubSeq(seq, pos, Len(seq))

\* o[key] = v on a plain object (also what `{"key": v}` does in an object
\* literal): "__proto__" reaches the prototype setter and creates no own
\* property; an existing key keeps its position; a new key is created.
PutProperty(o, key, v) ==
  IF key = ProtoKey THEN [o EXCEPT !.proto = <<v>>]
  ELSE IF HasOwn(o, key)
  THEN [o EXCEPT !.props[CHOOSE i \in 1..Len(o.keys) : o.keys[i] = key] = v]
  ELSE LET pos == NewKeyPosition(o.keys, key)
       IN [o EXCEPT !.keys = InsertAt(o.keys, pos, key), !.props = InsertAt(o.props, pos, v)]

\* delete o[key]
DeleteProperty(o, key) ==
  IF ~HasOwn(o, key) THEN o
  ELSE LET pos == CHOOSE i \in 1..Len(o.keys) : o.keys[i] = key
           Drop(seq) == SubSeq(seq, 1, pos - 1) \o SubSeq(seq, pos + 1, Len(seq))
       IN [o EXCEPT !.keys = Drop(o.keys), !.props = Drop(o.props)]

\* o.key, for a key Object.prototype does not define.
GetProperty(o, key) == IF HasOwn(o, key) THEN GetOwn(o, key) ELSE Undefined

\* Evaluation of an object literal { k1: v1, k2: v2, ... }.
RECURSIVE ObjectLiteral(_)
ObjectLiteral(members) ==
  IF members = <<>> THEN EmptyObject
  ELSE LET last == members[Len(members)]
       IN PutProperty(ObjectLiteral(SubSeq(members, 1, Len(members) - 1)), last.key, last.val)

\* --------------------------------------------------------------- JSON ---
\* JSON.stringify of an options object: the own properties in key order,
\* those whose value is undefined left out.  (Finite numbers, strings and
\* booleans are written as themselves.)
StringifyOptions(o) ==
  LET kept == SelectSeq([i \in 1..Len(o.keys) |-> i], LAMBDA i : o.props[i].k # "undefined")
  IN [j \in 1..Len(kept) |-> [key |-> o.keys[kept[j]], val |-> o.props[kept[j]]]]

\* JSON.stringify(cookies): one member per own property of `cookies`, in
\* [[OwnPropertyKeys]] order; the prototype is not serialized.
StringifyCookies(o) ==
  [i \in 1..Len(o.keys) |->
     [key |-> o.keys[i],
      val |-> [value |-> o.props[i].value, options |-> StringifyOptions(o.props[i].options)]]]

\* `const cookies = <that text>` in the snippet: the text read back as an
\* object literal.
EvalCookiesLiteral(members) ==
  ObjectLiteral([i \in 1..Len(members) |->
     [key |-> members[i].key,
      val |-> [value |-> members[i].val.value,
               options |-> ObjectLiteral(members[i].val.options)]]])

\* ------------------------------------------------------ attribute keys ---
K_maxAge == <<"m", "a", "x", "A", "g", "e">>
K_path == <<"p", "a", "t", "h">>
K_sameSite == <<"s", "a", "m", "e", "S", "i", "t", "e">>
K_domain == <<"d", "o", "m", "a", "i", "n">>
K_secure == <<"s", "e", "c", "u", "r", "e">>
K_httpOnly == <<"h", "t", "t", "p", "O", "n", "l", "y">>
K_value == <<"v", "a", "l", "u", "e">>
K_options == <<"o", "p", "t", "i", "o", "n", "s">>

\* ------------------------------------------------- the printed snippet ---
\* A variant of the loop body that tests max-age for truthiness, like the
\* other two attributes.
CookieString_TruthyMaxAge(name, entry) ==
  LET value == entry.value
      options == entry.options
      s0 == encodeURIComponent(name) \o <<"=">> \o encodeURIComponent(JSToString(value))
      s1 == IF Truthy(GetProperty(options, K_maxAge))
            THEN s0 \o <<";", " ", "m", "a", "x", "-", "a", "g", "e", "=">>
                    \o JSToString(GetProperty(options, K_maxAge))
            ELSE s0
      s2 == IF Truthy(GetProperty(options, K_path))
            THEN s1 \o <<";", " ", "p", "a", "t", "h", "=">> \o JSToString(GetProperty(options, K_path))
            ELSE s1
      s3 == IF Truthy(GetProperty(options, K_sameSite))
            THEN s2 \o <<";", " ", "s", "a", "m", "e", "s", "i", "t", "e", "=">>
                    \o JSToString(GetProperty(options, K_sameSite))
            ELSE s2
  IN s3

\* The body of the for-in loop of writeCookies for one own property.
CookieString(name, entry) ==
  LET value == entry.value
      options == entry.options
      s0 == encodeURIComponent(name) \o <<"=">> \o encodeURIComponent(JSToString(value))
      s1 == IF GetProperty(options, K_maxAge) # Undefined
            THEN s0 \o <<";", " ", "m", "a", "x", "-", "a", "g", "e", "=">>
                    \o JSToString(GetProperty(options, K_maxAge))
            ELSE s0
      s2 == IF Truthy(GetProperty(options, K_path))
            THEN s1 \o <<";", " ", "p", "a", "t", "h", "=">> \o JSToString(GetProperty(options, K_path))
            ELSE s1
      s3 == IF Truthy(GetProperty(options, K_sameSite))
            THEN s2 \o <<";", " ", "s", "a", "m", "e", "s", "i", "t", "e", "=">>
                    \o JSToString(GetProperty(options, K_sameSite))
            ELSE s2
  IN s3

\* The names `for (var name in cookies)` visits: the own keys, then the
\* enumerable keys inherited from a prototype that is an entry object.
ForInKeys(o) == o.keys \o (IF o.proto = <<>> THEN <<>> ELSE <<K_value, K_options>>)

\* writeCookies(cookies), from the visit of keys[i] on: the strings assigned
\* to document.cookie, and whether the loop ended in a TypeError
\* (`cookies.hasOwnProperty` is not callable when an own property of that
\* name shadows Object.prototype.hasOwnProperty).
RECURSIVE WriteCookiesFrom(_, _, _)
WriteCookiesFrom(o, keys, i) ==
  IF i > Len(keys) THEN [assigned |-> <<>>, threw |-> FALSE]
  ELSE IF HasOwn(o, HasOwnPropertyKey) THEN [assigned |-> <<>>, threw |-> TRUE]
  ELSE IF ~HasOwn(o, keys[i]) THEN WriteCookiesFrom(o, keys, i + 1)
  ELSE LET rest == WriteCookiesFrom(o, keys, i + 1)
       IN [assigned |-> <<[name |-> keys[i], cookieString |-> CookieString(keys[i], GetOwn(o, keys[i]))]>>
                         \o rest.assigned,
           threw |-> rest.threw]

writeCookies(o) == WriteCookiesFrom(o, ForInKeys(o), 1)

\* ------------------------------------------------------------- inputs ---
Programs == {"main.mjs", "part_000"}

\* A flag given on the command line, or not given.
FlagValues == {Bool(TRUE), Undefined}

ExistingEmail == <<"u", "@", "x", ".", "i", "o">>
UnknownEmail == <<"g", "@", "x", ".", "i", "o">>
Emails == {ExistingEmail, UnknownEmail}

\* The rows of public.users.
UsersTable == <<[id |-> <<"4", "2">>, email |-> ExistingEmail]>>
SelectByEmail(email) == SelectSeq(UsersTable, LAMBDA row : row.email = email)

\* The hashed token the identity provider issues for an email.
HashedTokenFor(email) == <<"t", "o", "k", ":">> \o email

\* What an environment variable can hold.
EnvValues == {Undefined, Str(<<>>), Str(<<"s", "e", "t">>)}

CookieNames ==
  {<<"s", "b", "-", "t", "o", "k">>, <<"a", ";", "b">>, <<"7">>, ProtoKey, HasOwnPropertyKey}

Options1 ==
  ObjectLiteral(<<[key |-> K_maxAge, val |-> Num(3600)],
                  [key |-> K_path, val |-> Str(<<"/">>)],
                  [key |-> K_sameSite, val |-> Str(<<"l", "a", "x">>)]>>)
Options2 ==
  ObjectLiteral(<<[key |-> K_sameSite, val |-> Str(<<>>)],
                  [key |-> K_path, val |-> Str(<<"/", "a", "p", "p">>)],
                  [key |-> K_maxAge, val |-> Num(0)],
                  [key |-> K_domain, val |-> Str(<<"x", ".", "i", "o">>)],
                  [key |-> K_secure, val |-> Bool(TRUE)],
                  [key |-> K_httpOnly, val |-> Bool(TRUE)]>>)
Options3 ==
  ObjectLiteral(<<[key |-> K_maxAge, val |-> Undefined],
                  [key |-> K_path, val |-> Str(<<>>)]>>)

\* The (value, options) pairs the provider passes to cookies.set.
CookiePayloads ==
  {[value |-> Str(<<"a", "b", "c", "1", "2", "3">>), options |-> Options1],
   [value |-> Str(<<"a", "=", "b", ";">>), options |-> Options2],
   [value |-> Str(<<>>), options |-> Options3]}

\* -------------------------------------------------------------- state ---
VARIABLES
  program,            \* which of the two source files runs
  args,               \* the parsed command line
  supabase_url, supabase_anon_key, service_role_key,
  pc,                 \* where `run` is suspended
  exitCode,           \* -1 while the process runs
  netCalls,           \* the network calls made so far, in order
  userLookup,         \* "none", or how the Step 0 lookup answered: "error", "empty", "found"
  hashed_token,
  cookies,            \* the `cookies` object of Step 2
  written,            \* the cookies.set calls the provider has made, in order
  lastCallback,       \* the latest callback the provider made, and its result
  nCallbacks,
  stdout, stderr,
  snippetRun,         \* "no", "done" or "threw": the snippet pasted in the browser
  documentCookie      \* the assignments to document.cookie, in order

vars ==
  <<program, args, supabase_url, supabase_anon_key, service_role_key, pc, exitCode, netCalls,
    userLookup, hashed_token, cookies, written, lastCallback, nCallbacks, stdout, stderr, snippetRun,
    documentCookie>>

NoCallback == [op |-> "none", name |-> <<>>, result |-> Undefined]

Line(kind, arg, json) == [line |-> kind, arg |-> arg, json |-> json]
Diagnostic(kind, payload) == [message |-> kind, payload |-> payload]

Init ==
  /\ program \in Programs
  /\ args \in [email : Emails, skipCheck : FlagValues, dryRun : FlagValues]
  /\ program = "part_000" => args.skipCheck = Undefined /\ args.dryRun = Undefined
  /\ supabase_url = Undefined
  /\ supabase_anon_key = Undefined
  /\ service_role_key = Undefined
  /\ pc = "start"
  /\ exitCode = -1
  /\ netCalls = <<>>
  /\ userLookup = "none"
  /\ hashed_token = <<>>
  /\ cookies = EmptyObject
  /\ written = <<>>
  /\ lastCallback = NoCallback
  /\ nCallbacks = 0
  /\ stdout = <<>>
  /\ stderr = <<>>
  /\ snippetRun = "no"
  /\ documentCookie = <<>>

\* process.exit(code)
Exit(code) == pc' = "exited" /\ exitCode' = code

\* A variant of the pre-flight test that wants all three settings missing.
ConfigMissing_AllMissing(url, anon, service) == ~Truthy(url) /\ ~Truthy(anon) /\ ~Truthy(service)

\* The configuration pre-flight test.
ConfigMissing(url, anon, service) == ~Truthy(url) \/ ~Truthy(anon) \/ ~Truthy(service)

\* A variant of the Step 0 guard with the test inverted.
ExistenceCheckActive_Inverted == Truthy(args.skipCheck)

\* if (!args['skip-check'])
ExistenceCheckActive == ~Truthy(args.skipCheck)

\* A variant that never looks at the dry-run flag.
DryRunOrGenerateLink_IgnoresDryRun(out) ==
  /\ stdout' = out
  /\ netCalls' = Append(netCalls, [op |-> "generateLink", arg |-> args.email])
  /\ pc' = "awaitGenerateLink"
  /\ UNCHANGED exitCode

\* main.mjs from the dry-run test to the generateLink request; `out` is
\* what has been printed before.
DryRunOrGenerateLink(out) ==
  /\ stdout' = out
  /\ IF Truthy(args.dryRun)
     THEN Exit(0) /\ UNCHANGED netCalls
     ELSE /\ netCalls' = Append(netCalls, [op |-> "generateLink", arg |-> args.email])
          /\ pc' = "awaitGenerateLink"
          /\ UNCHANGED exitCode

\* run() of main.mjs up to its first await.
Run ==
  /\ pc = "start"
  /\ program = "main.mjs"
  /\ \E SUPABASE_URL \in EnvValues, NEXT_PUBLIC_SUPABASE_URL \in EnvValues,
        SUPABASE_ANON_KEY \in EnvValues, NEXT_PUBLIC_SUPABASE_ANON_KEY \in EnvValues,
        SUPABASE_SERVICE_ROLE_KEY \in EnvValues :
       /\ supabase_url' = Or(SUPABASE_URL, NEXT_PUBLIC_SUPABASE_URL)
       /\ supabase_anon_key' = Or(SUPABASE_ANON_KEY, NEXT_PUBLIC_SUPABASE_ANON_KEY)
       /\ service_role_key' = SUPABASE_SERVICE_ROLE_KEY
  /\ IF ConfigMissing(supabase_url', supabase_anon_key', service_role_key')
     THEN /\ stderr' = Append(stderr, Diagnostic("Please set the environment variables", <<>>))
          /\ Exit(1)
          /\ UNCHANGED <<netCalls, stdout>>
     ELSE IF ExistenceCheckActive
     THEN /\ netCalls' = Append(netCalls, [op |-> "users.select", arg |-> args.email])
          /\ pc' = "awaitLookup"
          /\ UNCHANGED <<exitCode, stdout, stderr>>
     ELSE /\ DryRunOrGenerateLink(stdout)
          /\ UNCHANGED stderr
  /\ UNCHANGED <<program, args, userLookup, hashed_token, cookies, written, lastCallback, nCallbacks,
                 snippetRun, documentCookie>>

\* A variant of LookupReturns that prints the not-found message with console.log.
LookupReturns_LogsNotFound ==
  /\ pc = "awaitLookup"
  /\ \E userError \in {<<>>, <<"PGRST205">>} :
       LET usersData == IF userError = <<>> THEN SelectByEmail(args.email) ELSE <<>>
       IN /\ userLookup' = (IF userError # <<>> THEN "error"
                           ELSE IF Len(usersData) = 0 THEN "empty" ELSE "found")
          /\ IF userError # <<>>
             THEN /\ stderr' = stderr \o <<Diagnostic("Error checking user existence:", userError),
                                           Diagnostic("please use the --skip-check flag", <<>>)>>
                  /\ Exit(1)
                  /\ UNCHANGED <<netCalls, stdout>>
             ELSE IF Len(usersData) = 0
             THEN /\ stdout' = Append(stdout, Line("User does not exist", args.email, <<>>))
                  /\ Exit(1)
                  /\ UNCHANGED <<netCalls, stderr>>
             ELSE /\ DryRunOrGenerateLink(stdout \o <<Line("// Email:", args.email, <<>>),
                                                      Line("// User ID:", usersData[1].id, <<>>)>>)
                  /\ UNCHANGED stderr
  /\ UNCHANGED <<program, args, supabase_url, supabase_anon_key, service_role_key, hashed_token,
                 cookies, written, lastCallback, nCallbacks, snippetRun, documentCookie>>

\* The user lookup of Step 0 resolves; main.mjs runs to its next await.
LookupReturns ==
  /\ pc = "awaitLookup"
  /\ \E userError \in {<<>>, <<"PGRST205">>} :
       LET usersData == IF userError = <<>> THEN SelectByEmail(args.email) ELSE <<>>
       IN /\ userLookup' = (IF userError # <<>> THEN "error"
                           ELSE IF Len(usersData) = 0 THEN "empty" ELSE "found")
          /\ IF userError # <<>>
             THEN /\ stderr' = stderr \o <<Diagnostic("Error checking user existence:", userError),
                                           Diagnostic("please use the --skip-check flag", <<>>)>>
                  /\ Exit(1)
                  /\ UNCHANGED <<netCalls, stdout>>
             ELSE IF Len(usersData) = 0
             THEN /\ stderr' = Append(stderr, Diagnostic("User does not exist", <<args.email>>))
                  /\ Exit(1)
                  /\ UNCHANGED <<netCalls, stdout>>
             ELSE /\ DryRunOrGenerateLink(stdout \o <<Line("// Email:", args.email, <<>>),
                                                      Line("// User ID:", usersData[1].id, <<>>)>>)
                  /\ UNCHANGED stderr
  /\ UNCHANGED <<program, args, supabase_url, supabase_anon_key, service_role_key, hashed_token,
                 cookies, written, lastCallback, nCallbacks, snippetRun, documentCookie>>

\* run() of the variant without flags, up to its first await.
Run000 ==
  /\ pc = "start"
  /\ program = "part_000"
  /\ \E SUPABASE_URL \in EnvValues, NEXT_PUBLIC_SUPABASE_URL \in EnvValues,
        SUPABASE_ANON_KEY \in EnvValues, NEXT_PUBLIC_SUPABASE_ANON_KEY \in EnvValues,
        SUPABASE_SERVICE_ROLE_KEY \in EnvValues :
       /\ supabase_url' = Or(SUPABASE_URL, NEXT_PUBLIC_SUPABASE_URL)
       /\ supabase_anon_key' = Or(SUPABASE_ANON_KEY, NEXT_PUBLIC_SUPABASE_ANON_KEY)
       /\ service_role_key' = SUPABASE_SERVICE_ROLE_KEY
  /\ IF ConfigMissing(supabase_url', supabase_anon_key', service_role_key')
     THEN /\ stderr' = Append(stderr, Diagnostic("Please set the environment variables", <<>>))
          /\ Exit(1)
          /\ UNCHANGED netCalls
     ELSE /\ netCalls' = Append(netCalls, [op |-> "generateLink", arg |-> args.email])
          /\ pc' = "awaitGenerateLink"
          /\ UNCHANGED <<exitCode, stderr>>
  /\ UNCHANGED <<program, args, userLookup, hashed_token, cookies, written, lastCallback, nCallbacks,
                 stdout, snippetRun, documentCookie>>

\* A variant of GenerateLinkReturns that asks for a link a second time when
\* the first request fails.
GenerateLinkReturns_Retries ==
  /\ pc = "awaitGenerateLink"
  /\ \E generateLinkError \in {<<>>, <<"over_email_send_rate_limit">>} :
       IF generateLinkError # <<>> /\ Len(netCalls) < 3
       THEN /\ netCalls' = Append(netCalls, [op |-> "generateLink", arg |-> args.email])
            /\ UNCHANGED <<pc, exitCode, stderr, hashed_token, cookies>>
       ELSE IF generateLinkError # <<>>
       THEN /\ stderr' = Append(stderr, Diagnostic("Error generating magic link:", generateLinkError))
            /\ Exit(1)
            /\ UNCHANGED <<netCalls, hashed_token, cookies>>
       ELSE /\ hashed_token' = HashedTokenFor(args.email)
            /\ cookies' = EmptyObject
            /\ netCalls' = Append(netCalls, [op |-> "verifyOtp", arg |-> hashed_token'])
            /\ pc' = "awaitVerifyOtp"
            /\ UNCHANGED <<exitCode, stderr>>
  /\ UNCHANGED <<program, args, userLookup, supabase_url, supabase_anon_key, service_role_key, written,
                 lastCallback, nCallbacks, stdout, snippetRun, documentCookie>>

\* generateLink resolves; Step 2 starts: a fresh `cookies` object, the server
\* client with the three callbacks, and the verifyOtp request.
GenerateLinkReturns ==
  /\ pc = "awaitGenerateLink"
  /\ \E generateLinkError \in {<<>>, <<"over_email_send_rate_limit">>} :
       IF generateLinkError # <<>>
       THEN /\ stderr' = Append(stderr, Diagnostic("Error generating magic link:", generateLinkError))
            /\ Exit(1)
            /\ UNCHANGED <<netCalls, hashed_token, cookies>>
       ELSE /\ hashed_token' = HashedTokenFor(args.email)
            /\ cookies' = EmptyObject
            /\ netCalls' = Append(netCalls, [op |-> "verifyOtp", arg |-> hashed_token'])
            /\ pc' = "awaitVerifyOtp"
            /\ UNCHANGED <<exitCode, stderr>>
  /\ UNCHANGED <<program, args, userLookup, supabase_url, supabase_anon_key, service_role_key, written,
                 lastCallback, nCallbacks, stdout, snippetRun, documentCookie>>

\* The provider's client library works on the verification and may call the
\* cookie callbacks.
InVerifyOtp == pc = "awaitVerifyOtp" /\ nCallbacks < MaxCallbacks

CallbackFrame ==
  UNCHANGED <<program, args, userLookup, supabase_url, supabase_anon_key, service_role_key, pc, exitCode,
              netCalls, hashed_token, stdout, stderr, snippetRun, documentCookie>>

\* cookies.get(name)
CookiesGet ==
  /\ InVerifyOtp
  /\ \E name \in CookieNames :
       lastCallback' = [op |-> "get", name |-> name, result |-> Undefined]
  /\ nCallbacks' = nCallbacks + 1
  /\ UNCHANGED <<cookies, written>>
  /\ CallbackFrame

\* cookies.set(name, value, options)
CookiesSet ==
  /\ InVerifyOtp
  /\ \E name \in CookieNames, payload \in CookiePayloads :
       /\ cookies' = PutProperty(cookies, name, [value |-> payload.value, options |-> payload.options])
       /\ written' = Append(written, [name |-> name, value |-> payload.value, options |-> payload.options])
       /\ lastCallback' = [op |-> "set", name |-> name, result |-> Undefined]
  /\ nCallbacks' = nCallbacks + 1
  /\ CallbackFrame

\* A variant of the remove callback that deletes the captured entry.
CookiesRemove_Deletes ==
  /\ pc = "awaitVerifyOtp" /\ nCallbacks < MaxCallbacks
  /\ \E name \in CookieNames :
       /\ lastCallback' = [op |-> "remove", name |-> name, result |-> Undefined]
       /\ cookies' = DeleteProperty(cookies, name)
  /\ nCallbacks' = nCallbacks + 1
  /\ UNCHANGED written
  /\ UNCHANGED <<program, args, userLookup, supabase_url, supabase_anon_key, service_role_key, pc, exitCode,
                 netCalls, hashed_token, stdout, stderr, snippetRun, documentCookie>>

\* cookies.remove(name, options)
CookiesRemove ==
  /\ InVerifyOtp
  /\ \E name \in CookieNames :
       lastCallback' = [op |-> "remove", name |-> name, result |-> Undefined]
  /\ nCallbacks' = nCallbacks + 1
  /\ UNCHANGED <<cookies, written>>
  /\ CallbackFrame

Instructions == Line("// Please execute this JS snippet above on the site and refresh the page.", <<>>, <<>>)
Blank == Line("", <<>>, <<>>)
\* The template literal with JSON.stringify(cookies) spliced in; arg holds the
\* line breaks left around it.
Snippet(arg, obj) == Line("(() => { const cookies = ...; writeCookies(cookies) })()", arg, StringifyCookies(obj))

\* A variant of VerifyOtpReturns whose error branch does not exit.
VerifyOtpReturns_NoExit ==
  /\ pc = "awaitVerifyOtp"
  /\ program = "main.mjs"
  /\ \E error \in {<<>>, <<"otp_expired">>} :
       /\ stderr' = IF error # <<>>
                    THEN Append(stderr, Diagnostic("Error getting cookie from magic link hashed token:", error))
                    ELSE stderr
       /\ stdout' = stdout \o <<Blank, Instructions, Blank, Snippet(<<>>, cookies), Blank, Instructions>>
       /\ Exit(0)
  /\ UNCHANGED <<program, args, userLookup, supabase_url, supabase_anon_key, service_role_key, netCalls,
                 hashed_token, cookies, written, lastCallback, nCallbacks, snippetRun,
                 documentCookie>>

\* verifyOtp resolves; main.mjs runs to its end.
VerifyOtpReturns ==
  /\ pc = "awaitVerifyOtp"
  /\ program = "main.mjs"
  /\ \E error \in {<<>>, <<"otp_expired">>} :
       IF error # <<>>
       THEN /\ stderr' = Append(stderr, Diagnostic("Error getting cookie from magic link hashed token:", error))
            /\ Exit(1)
            /\ UNCHANGED stdout
       ELSE /\ stdout' = stdout \o <<Blank, Instructions, Blank, Snippet(<<>>, cookies), Blank, Instructions>>
            /\ Exit(0)
            /\ UNCHANGED stderr
  /\ UNCHANGED <<program, args, userLookup, supabase_url, supabase_anon_key, service_role_key, netCalls,
                 hashed_token, cookies, written, lastCallback, nCallbacks, snippetRun,
                 documentCookie>>

Header000 == Line("// Please execute the following JS snippet in the site, and refresh the page to sign in as the user:", <<>>, <<>>)
Rule000 == Line("// --------", <<>>, <<>>)

\* verifyOtp resolves; the variant without flags runs to its end.
VerifyOtpReturns000 ==
  /\ pc = "awaitVerifyOtp"
  /\ program = "part_000"
  /\ \E error \in {<<>>, <<"otp_expired">>} :
       IF error # <<>>
       THEN /\ stderr' = Append(stderr, Diagnostic("Error getting cookie from magic link hashed token:", error))
            /\ Exit(1)
            /\ UNCHANGED stdout
       ELSE /\ stdout' = stdout \o <<Header000, Blank, Rule000, Blank, Snippet(<<"\n">>, cookies), Blank, Rule000>>
            /\ Exit(0)
            /\ UNCHANGED stderr
  /\ UNCHANGED <<program, args, userLookup, supabase_url, supabase_anon_key, service_role_key, netCalls,
                 hashed_token, cookies, written, lastCallback, nCallbacks, snippetRun,
                 documentCookie>>

IsSnippet(l) == l.json # <<>> \/ l.line = Snippet(<<>>, EmptyObject).line
SnippetLines == SelectSeq(stdout, IsSnippet)

\* The operator pastes the printed snippet into the browser console: the
\* literal is evaluated and writeCookies runs on it.
RunSnippet ==
  /\ pc = "exited"
  /\ snippetRun = "no"
  /\ Len(SnippetLines) > 0
  /\ LET ran == writeCookies(EvalCookiesLiteral(SnippetLines[1].json))
     IN /\ documentCookie' = ran.assigned
        /\ snippetRun' = IF ran.threw THEN "threw" ELSE "done"
  /\ UNCHANGED <<program, args, userLookup, supabase_url, supabase_anon_key, service_role_key, pc, exitCode,
                 netCalls, hashed_token, cookies, written, lastCallback, nCallbacks, stdout, stderr>>

Next ==
  \/ Run
  \/ LookupReturns
  \/ Run000
  \/ GenerateLinkReturns
  \/ CookiesGet
  \/ CookiesSet
  \/ CookiesRemove
  \/ VerifyOtpReturns
  \/ VerifyOtpReturns000
  \/ RunSnippet

Spec == Init /\ [][Next]_vars

\* ===================================================== the properties ===
Called(op) == \E i \in 1..Len(netCalls) : netCalls[i].op = op
CallCount(op) == Cardinality({i \in 1..Len(netCalls) : netCalls[i].op = op})
Reported(message) == \E i \in 1..Len(stderr) : stderr[i].message = message
VerificationFailed == Reported("Error getting cookie from magic link hashed token:")
VerificationSucceeded == pc = "exited" /\ Called("verifyOtp") /\ ~VerificationFailed
SnippetEmitted == Len(SnippetLines) > 0

\* The jar as the snippet emitter received it: the members of JSON.stringify(cookies).
EmittedJar == SnippetLines[1].json
EmittedNames == {EmittedJar[i].key : i \in 1..Len(EmittedJar)}
EmittedEntry(name) == EmittedJar[CHOOSE i \in 1..Len(EmittedJar) : EmittedJar[i].key = name].val
MemberValue(members, key) ==
  IF \E i \in 1..Len(members) : members[i].key = key
  THEN members[CHOOSE i \in 1..Len(members) : members[i].key = key].val
  ELSE Undefined

\* What the provider wrote.
WrittenNames == {written[i].name : i \in 1..Len(written)}
LastWrite(name) ==
  written[CHOOSE i \in 1..Len(written) :
            written[i].name = name /\ \A j \in (i + 1)..Len(written) : written[j].name # name]
AttributeKeys == {K_maxAge, K_path, K_sameSite, K_domain, K_secure, K_httpOnly}

\* The names of `ws` in the order of their first write.
RECURSIVE FirstWriteOrder(_)
FirstWriteOrder(ws) ==
  IF ws = <<>> THEN <<>>
  ELSE LET before == FirstWriteOrder(SubSeq(ws, 1, Len(ws) - 1))
           name == ws[Len(ws)].name
       IN IF \E i \in 1..Len(before) : before[i] = name THEN before ELSE Append(before, name)

\* C1: after a successful verification, the jar handed to the snippet
\* emitter holds exactly the names written at least once, each with the value
\* and the attributes of the last write for that name, and nothing else.
C1_JarIsLastWrites ==
  SnippetEmitted =>
    /\ EmittedNames = WrittenNames
    /\ Len(EmittedJar) = Cardinality(WrittenNames)
    /\ \A name \in EmittedNames :
         /\ EmittedEntry(name).value = LastWrite(name).value
         /\ \A key \in AttributeKeys :
              MemberValue(EmittedEntry(name).options, key) = GetProperty(LastWrite(name).options, key)

\* C9: the snippet performs one cookie-store write per jar entry, in the
\* order in which the jar's names were first written during the verification.
C9_OneWritePerEntryInInsertionOrder ==
  snippetRun # "no" =>
    [i \in 1..Len(documentCookie) |-> documentCookie[i].name]
      = SelectSeq(FirstWriteOrder(written), LAMBDA name : name \in EmittedNames)

\* ---------------------------------------------------------------- C2 ---
\* C2: once the verification call has reported an error, no snippet is on
\* standard output, no serialized jar appears in any output line, nothing is
\* ever run in the browser, and the process has exited with status 1; this
\* also when the provider wrote cookies before it reported the error.
C2_NoSnippetAfterVerificationError ==
  VerificationFailed =>
    /\ pc = "exited"
    /\ exitCode = 1
    /\ ~SnippetEmitted
    /\ \A i \in 1..Len(stdout) : stdout[i].json = <<>>
    /\ snippetRun = "no"
    /\ documentCookie = <<>>

\* The verification failed after the provider had written a cookie.
C2_Witness == VerificationFailed /\ Len(cookies.keys) > 0 /\ Len(written) > 0

\* ---------------------------------------------------------------- C3 ---
AnySettingMissing ==
  \E v \in {supabase_url, supabase_anon_key, service_role_key} : v = Undefined \/ v = Str(<<>>)
RunEnded == pc = "exited"
CompleteSnippetPrinted ==
  /\ SnippetEmitted
  /\ Len(SnippetLines) = 1
  /\ EmittedJar = StringifyCookies(cookies)
  /\ stdout[Len(stdout)].line \in {Instructions.line, Rule000.line}
SuccessOutcome == exitCode = 0 /\ stderr = <<>> /\ CompleteSnippetPrinted
EmailAndUserIdLines ==
  /\ Len(stdout) = 2
  /\ stdout[1] = Line("// Email:", args.email, <<>>)
  /\ stdout[2].line = "// User ID:"

\* C3 as stated: without dry-run, a run that has ended either printed the
\* complete snippet and exited with 0, or wrote a diagnostic, exited with a
\* non-zero status and wrote nothing at all to standard output.
C3_NothingOnStdoutOnFailure ==
  (RunEnded /\ ~Truthy(args.dryRun)) =>
    \/ SuccessOutcome
    \/ exitCode > 0 /\ Len(stderr) > 0 /\ stdout = <<>>

\* C3 amended: on failure standard output holds no part of the snippet or of
\* the instructions; it is empty, or, when the existence check ran and found
\* the user, it holds exactly the two comment lines "// Email:" and
\* "// User ID:".
C3_NoSnippetOnFailure ==
  (RunEnded /\ ~Truthy(args.dryRun)) =>
    \/ SuccessOutcome
    \/ /\ exitCode > 0
       /\ Len(stderr) > 0
       /\ ~SnippetEmitted
       /\ \/ stdout = <<>>
          \/ EmailAndUserIdLines /\ userLookup = "found"

\* A failed run that had printed the two comment lines.
C3_Witness == RunEnded /\ ~Truthy(args.dryRun) /\ exitCode = 1 /\ EmailAndUserIdLines

\* ---------------------------------------------------------------- C4 ---
\* C4: when one of the three settings is missing the run ends with status 1
\* and makes no network call: no user lookup, no generateLink, no verifyOtp.
C4_MissingSettingStopsBeforeNetwork ==
  (pc # "start" /\ AnySettingMissing) =>
    /\ pc = "exited"
    /\ exitCode = 1
    /\ netCalls = <<>>
    /\ userLookup = "none"
    /\ stdout = <<>>

\* Exactly one setting (the service-role key) is missing.
C4_Witness ==
  /\ pc = "exited"
  /\ Truthy(supabase_url)
  /\ Truthy(supabase_anon_key)
  /\ service_role_key = Str(<<>>)

\* ---------------------------------------------------------------- C5 ---
\* C5 (main.mjs, the file that has the flag): a lookup that answered with an
\* error or with no row ends the run with status 1 and without a
\* generateLink call; generateLink for an email that has no user record is
\* called only when skip-check is set.
C5_NoIssuanceForUnknownUser ==
  program = "main.mjs" =>
    /\ userLookup \in {"error", "empty"} =>
         pc = "exited" /\ exitCode = 1 /\ ~Called("generateLink")
    /\ (Called("generateLink") /\ ~Truthy(args.skipCheck)) => userLookup = "found"
    /\ (Called("generateLink") /\ SelectByEmail(args.email) = <<>>) => Truthy(args.skipCheck)

\* The lookup found no row and the run was aborted.
C5_Witness == program = "main.mjs" /\ userLookup = "empty" /\ exitCode = 1 /\ ~Truthy(args.skipCheck)

\* ---------------------------------------------------------------- C6 ---
DryRunMakesNoCall ==
  /\ ~Called("generateLink")
  /\ ~Called("verifyOtp")
  /\ ~SnippetEmitted
  /\ pc \in {"start", "awaitLookup", "exited"}

\* C6 as stated: with dry-run set there is no generateLink call, no
\* verifyOtp call and no snippet, and the run ends with status 0 when the
\* existence check passed or was bypassed and with a non-zero status when
\* it failed.
C6_DryRunStatusFollowsPreCheck ==
  Truthy(args.dryRun) =>
    /\ DryRunMakesNoCall
    /\ RunEnded =>
         /\ (Truthy(args.skipCheck) \/ userLookup = "found") => exitCode = 0
         /\ userLookup \in {"error", "empty"} => exitCode > 0

\* C6 amended: the same, for a run in which all three settings are present;
\* with a setting missing the run ends with status 1 before the existence
\* check, whatever the flags.
C6_DryRunStatusWhenConfigured ==
  Truthy(args.dryRun) =>
    /\ DryRunMakesNoCall
    /\ (RunEnded /\ ~AnySettingMissing) =>
         /\ (Truthy(args.skipCheck) \/ userLookup = "found") => exitCode = 0
         /\ userLookup \in {"error", "empty"} => exitCode > 0
         /\ exitCode = 0 \/ userLookup \in {"error", "empty"}
    /\ (RunEnded /\ AnySettingMissing) => exitCode = 1 /\ userLookup = "none"

\* A dry run that ended with status 0 after the existence check passed.
C6_Witness ==
  Truthy(args.dryRun) /\ RunEnded /\ exitCode = 0 /\ userLookup = "found" /\ Len(stdout) = 2

\* ---------------------------------------------------------------- C7 ---
C7_Order ==
  /\ CallCount("generateLink") <= 1
  /\ CallCount("verifyOtp") <= 1
  /\ Called("verifyOtp") =>
       /\ ~Reported("Error generating magic link:")
       /\ \E i \in 1..Len(netCalls) : \E j \in (i + 1)..Len(netCalls) :
            /\ netCalls[i].op = "generateLink"
            /\ netCalls[j].op = "verifyOtp"
            /\ netCalls[j].arg = HashedTokenFor(netCalls[i].arg)
            /\ netCalls[j].arg = hashed_token
  /\ SnippetEmitted => Called("verifyOtp") /\ ~VerificationFailed /\ pc = "exited"
  /\ Len(stderr) > 0 => pc = "exited"

\* C7: generateLink and verifyOtp are each called at most once; verifyOtp
\* only after generateLink succeeded and with the token it returned; the
\* snippet only after verifyOtp succeeded; and once a diagnostic has been
\* written no further network call is made.
C7_SequentialNoRetry ==
  /\ []C7_Order
  /\ [][Len(stderr) > 0 => netCalls' = netCalls]_vars

\* A run that went through issuance, verification and emission.
C7_Witness ==
  SnippetEmitted /\ CallCount("generateLink") = 1 /\ CallCount("verifyOtp") = 1 /\ Len(written) > 0

\* ---------------------------------------------------------------- C8 ---
IsDefined(v) == v.k # "undefined"
IsNonEmptyString(v) == v.k = "string" /\ v.s # <<>>
MaxAgePart(options) ==
  IF HasOwn(options, K_maxAge) /\ IsDefined(GetOwn(options, K_maxAge))
  THEN <<";", " ", "m", "a", "x", "-", "a", "g", "e", "=">> \o NatToString(GetOwn(options, K_maxAge).n)
  ELSE <<>>
PathPart(options) ==
  IF HasOwn(options, K_path) /\ IsNonEmptyString(GetOwn(options, K_path))
  THEN <<";", " ", "p", "a", "t", "h", "=">> \o GetOwn(options, K_path).s
  ELSE <<>>
SameSitePart(options) ==
  IF HasOwn(options, K_sameSite) /\ IsNonEmptyString(GetOwn(options, K_sameSite))
  THEN <<";", " ", "s", "a", "m", "e", "s", "i", "t", "e", "=">> \o GetOwn(options, K_sameSite).s
  ELSE <<>>
ClaimedCookieString(name, entry) ==
  encodeURIComponent(name) \o <<"=">> \o encodeURIComponent(entry.value.s)
    \o MaxAgePart(entry.options) \o PathPart(entry.options) \o SameSitePart(entry.options)

\* C8: every string the snippet assigns to document.cookie is, for the jar
\* entry of that name, percentEncode(name) "=" percentEncode(value), then
\* "; max-age=<n>" iff max-age is defined (0 included), then "; path=<p>" iff
\* path is non-empty, then "; samesite=<s>" iff sameSite is non-empty, and
\* nothing for the other attributes; and a snippet that runs to its end has
\* assigned such a string for every jar entry.
C8_CookieStringFormat ==
  snippetRun # "no" =>
    /\ \A i \in 1..Len(documentCookie) :
         /\ HasOwn(cookies, documentCookie[i].name)
         /\ documentCookie[i].cookieString
              = ClaimedCookieString(documentCookie[i].name, GetOwn(cookies, documentCookie[i].name))
    /\ snippetRun = "done" =>
         \A k \in 1..Len(cookies.keys) :
           \E i \in 1..Len(documentCookie) : documentCookie[i].name = cookies.keys[k]

\* The snippet assigned  a%3Bb=a%3Db%3B; max-age=0; path=/app  for the cookie
\* "a;b" = "a=b;" written with max-age 0, path /app, an empty sameSite, a
\* domain and the secure and httpOnly flags.
C8_Witness ==
  /\ snippetRun = "done"
  /\ \E i \in 1..Len(documentCookie) :
       documentCookie[i].cookieString
         = <<"a", "%", "3", "B", "b", "=", "a", "%", "3", "D", "b", "%", "3", "B",
             ";", " ", "m", "a", "x", "-", "a", "g", "e", "=", "0",
             ";", " ", "p", "a", "t", "h", "=", "/", "a", "p", "p">>

\* --------------------------------------------------------------- C10 ---
\* C10: a remove callback, for a name written before or not, changes
\* nothing of the jar and raises nothing: the run stays suspended in
\* verifyOtp with its outputs as they were.
C10_RemoveIsNoOp ==
  [][(nCallbacks' = nCallbacks + 1 /\ lastCallback'.op = "remove") =>
       /\ cookies' = cookies
       /\ pc' = pc
       /\ exitCode' = exitCode
       /\ stderr' = stderr
       /\ stdout' = stdout]_vars

\* remove was the last callback, for a name captured before it, and that
\* entry was emitted and written by the snippet.
C10_Witness ==
  /\ lastCallback.op = "remove"
  /\ HasOwn(cookies, lastCallback.name)
  /\ snippetRun = "done"
  /\ \E i \in 1..Len(documentCookie) : documentCookie[i].name = lastCallback.name

====
